---- MODULE Spec2Model ----
(***************************************************************************)
(* A model of the PriceTracker backend.                                    *)
(*                                                                         *)
(* The server (package main, listed in README.md): the registry            *)
(* trackingItems, the subscriber set clients, the lock mu, the handlers,   *)
(* the scheduler monitorPrices and the per-item check checkAndNotify.      *)
(* Every goroutine is a process; a step is a piece of code that touches    *)
(* shared state at most once (one map operation, one channel operation,    *)
(* one lock operation).  A section that holds mu.Lock() contains a single  *)
(* map operation and no blocking call, so Lock / operation / Unlock is one *)
(* step, enabled when no goroutine holds the read lock.  The model has no  *)
(* clock: a tick can come at any moment, whatever the state of the checks  *)
(* launched by earlier ticks.                                              *)
(***************************************************************************)
EXTENDS Integers, Sequences, FiniteSets, TLC

\* ---------------------------------------------------------------- inputs

\* Identifiers the callers supply ("" is the missing id).
Ids == {"A", "B"}
\* Prices a fetched page can show.
Prices == {95, 120}
\* The websocket connections that can ever be made.
ClientIds == {"c1", "c2", "c3"}

\* Capacity of a client's send channel (256 in the code, scaled down).
SendCap == 1
\* Goroutines that run checkAndNotify or the broadcast of checkPriceHandler at
\* the same time; no goroutine is started beyond that.
MaxChecks == 2

Slots == 1..MaxChecks

\* ----------------------------------------------------------------- state

VARIABLES
    trackingItems,  \* map[string]TrackingRequest: a function on the tracked ids
    clients,        \* map[*Client]bool: the set of registered clients
    send,           \* client.send: the buffered alerts of each client's channel
    closed,         \* whether close(client.send) has been executed
    cl,             \* each connection's life: none / open / gone / exiting / done
    readers,        \* the goroutines that hold mu.RLock()
    checks,         \* the running goroutines: one record per slot
    fault,          \* "none", or the runtime panic that ended the process
    tracked,        \* history: an id was tracked never / once / again
    alerted,        \* history: the checks of an id broadcast never / once / again
    obs,            \* history: the prices the scripted polls observed (SpecE2E)
    ops,            \* the registry handlers, statement by statement (SpecLock)
    tracker,        \* a Tracker of package tracker and its monitoring loop
    scraper         \* a call of package scraper: its argument and what it returned

vars == <<trackingItems, clients, send, closed, cl, readers, checks, fault,
          tracked, alerted, obs, ops, tracker, scraper>>

\* type TrackingRequest struct { URL, TargetPrice, ID }
TrackingRequest(id, url, target) == [ID |-> id, URL |-> url, TargetPrice |-> target]

\* type PriceAlert struct { ID, URL, CurrentPrice, TargetPrice, ... }
PriceAlert(id, url, price, target) ==
    [ID |-> id, URL |-> url, CurrentPrice |-> price, TargetPrice |-> target]

\* A slot no goroutine runs in.
IdleCheck ==
    [kind |-> "none", pc |-> "idle", id |-> "", url |-> "", target |-> 0,
     price |-> 0, todo |-> {}, sent |-> {}, cur |-> "", stale |-> FALSE]

\* The handler goroutines whose statements SpecLock follows one by one.
Handlers == {"h1", "h2", "h3"}

\* A handler goroutine that is not running.
IdleOp ==
    [kind |-> "none", pc |-> "idle", req |-> TrackingRequest("", "", 0),
     seen |-> {}, items |-> {}, snap |-> <<>>]

\* No Tracker has been created.  The fields of the struct, the state of its loop
\* (pc, the price cur of the running check, tick: ticker.C holds a tick, stop:
\* StopChan is closed), and the history of the running check and of the loop.
NoTracker ==
    [pc |-> "none", Selector |-> "", LastPrice |-> 0, ThresholdPrice |-> 0,
     cur |-> 0, tick |-> FALSE, stop |-> FALSE, fault |-> "none",
     selBefore |-> "", fastErr |-> FALSE, ranFull |-> FALSE, fullErr |-> FALSE,
     fullSel |-> "", notified |-> "never", late |-> FALSE]

\* The server after main() has set it up: nothing tracked, nobody connected.
\* No call of package scraper is followed.
NoCall == [pc |-> "none"]

Init ==
    /\ trackingItems = <<>>
    /\ clients = {}
    /\ send = [c \in ClientIds |-> <<>>]
    /\ closed = [c \in ClientIds |-> FALSE]
    /\ cl = [c \in ClientIds |-> "none"]
    /\ readers = {}
    /\ checks = [p \in Slots |-> IdleCheck]
    /\ fault = "none"
    /\ tracked = [i \in Ids |-> "never"]
    /\ alerted = [i \in Ids |-> "never"]
    /\ obs = <<>>
    /\ ops = [h \in Handlers |-> IdleOp]
    /\ tracker = NoTracker
    /\ scraper = NoCall

\* The process is alive: no goroutine has panicked.
Running == fault = "none"

\* A lock that a check would also hold while it fetches.
CanLockNoFetch == readers = {} /\ \A p \in Slots : checks[p].pc # "fetch"

\* mu.Lock() can be taken: no goroutine holds the read lock.
CanLock == readers = {}

\* The slots no goroutine runs in.
FreeSlots == {p \in Slots : checks[p].pc = "idle"}

\* The place of free slot p among the free slots.
Rank(p, free) == Cardinality({q \in free : q <= p})

\* The slot the next goroutine starts in.
FirstFree == CHOOSE p \in FreeSlots : Rank(p, FreeSlots) = 1

\* One more occurrence in a never / once / again history.
Again(h) == IF h = "never" THEN "once" ELSE "again"

\* ------------------------------------------------------------- map helpers

\* m[k] = v, inserting k when absent (Go: m[k] = v).
Put(m, k, v) == [x \in (DOMAIN m) \cup {k} |-> IF x = k THEN v ELSE m[x]]

\* A delete that empties the map.
DeleteAll(m, k) == [x \in {} |-> m[x]]

\* delete(m, k): a no-op when k is absent.
Delete(m, k) == [x \in (DOMAIN m) \ {k} |-> m[x]]

\* The tracked ids in the order one tick launches their checks.
LaunchOrder(ids) ==
    CHOOSE f \in [1..Cardinality(ids) -> ids] :
        \A i, j \in 1..Cardinality(ids) : i # j => f[i] # f[j]

\* ---------------------------------------------------------- HTTP handlers

\* trackPriceHandler's validation: the request is rejected.
InvalidTrack(req) == req.URL = "" \/ req.TargetPrice <= 0 \/ req.ID = ""

\* What trackPriceHandler answers: {"success": ..., "message": ...}.
TrackResponse(req) ==
    IF InvalidTrack(req)
    THEN [success |-> FALSE, message |-> "Invalid URL, target price, or ID"]
    ELSE [success |-> TRUE, message |-> "Price tracking started"]

\* A store that keeps no other entry.
TrackStoreAlone(items, req) == Put(<<>>, req.ID, req)

\* trackPriceHandler's critical section: trackingItems[req.ID] = req.
TrackStore(items, req) == Put(items, req.ID, req)

\* POST /api/track-price
trackPriceHandler(req) ==
    /\ Running
    /\ IF InvalidTrack(req)
       THEN UNCHANGED <<trackingItems, tracked>>
       ELSE /\ CanLock
            /\ trackingItems' = TrackStore(trackingItems, req)
            /\ tracked' = [tracked EXCEPT ![req.ID] = Again(@)]
    /\ UNCHANGED <<clients, send, closed, cl, readers, checks, fault, alerted, obs, ops,
                   tracker, scraper>>

\* POST /api/untrack-price: the id is not validated; the answer is always
\* success.  A check of the id that is still fetching is marked stale: whatever
\* it does from now on, it does after the untrack.
untrackPriceHandler(id) ==
    /\ Running
    /\ CanLock
    /\ trackingItems' = Delete(trackingItems, id)
    /\ checks' = [p \in Slots |->
                    IF checks[p].kind = "poll" /\ checks[p].id = id
                       /\ checks[p].pc = "fetch"
                    THEN [checks[p] EXCEPT !.stale = TRUE] ELSE checks[p]]
    /\ UNCHANGED <<clients, send, closed, cl, readers, fault, tracked, alerted, obs,
                   ops, tracker, scraper>>

\* What untrackPriceHandler answers, whatever the id.
UntrackResponse(id) == [success |-> TRUE, message |-> "Price tracking stopped"]

\* GET /api/tracked-items: the copy getTrackedItemsHandler makes while it holds
\* mu.RLock(), which no writer interrupts.
TrackedItems(items) == {items[i] : i \in DOMAIN items}

\* -------------------------------------------------------------- scheduler

\* go checkAndNotify(id, item): the goroutine gets the id and a copy of the item.
NewCheck(kind, id, url, target, pc, price) ==
    [kind |-> kind, pc |-> pc, id |-> id, url |-> url, target |-> target,
     price |-> price, todo |-> {}, sent |-> {}, cur |-> "", stale |-> FALSE]

\* The checks one tick of monitorPrices launches: one per entry of the registry,
\* whether or not an earlier check of the same id is still running.
TickLaunch(items, chks) ==
    LET ids == DOMAIN items
        n == Cardinality(ids)
        free == {p \in Slots : chks[p].pc = "idle"}
        ord == LaunchOrder(ids)
    IN [p \in Slots |->
            IF p \in free /\ Rank(p, free) <= n
            THEN NewCheck("poll", ord[Rank(p, free)], items[ord[Rank(p, free)]].URL,
                          items[ord[Rank(p, free)]].TargetPrice, "fetch", 0)
            ELSE chks[p]]

\* monitorPrices: case <-ticker.C, with a registry that is not empty.
monitorPrices ==
    /\ Running
    /\ DOMAIN trackingItems # {}
    /\ Cardinality(DOMAIN trackingItems) <= Cardinality(FreeSlots)
    /\ checks' = TickLaunch(trackingItems, checks)
    /\ UNCHANGED <<trackingItems, clients, send, closed, cl, readers, fault, tracked,
                   alerted, obs, ops, tracker, scraper>>

\* ------------------------------------------------------ checkAndNotify

\* A goroutine that starts over instead of returning.
Refetch(chk) == [chk EXCEPT !.pc = "fetch"]

\* The threshold test turned around.
IsAboveTarget(price, target) == price >= target

\* The threshold test: currentPrice <= item.TargetPrice.
IsBelowTarget(price, target) == price <= target

\* A goroutine that has returned: its slot is free again.
Ended(chk) == IdleCheck

\* Every goroutine goes on to the delete after its broadcast.
ThenDelete(chk) == [chk EXCEPT !.pc = "lock"]

\* After the broadcast checkAndNotify goes on to delete its item; the goroutine
\* of checkPriceHandler ends.
AfterBroadcast(chk) ==
    IF chk.kind = "poll" THEN [chk EXCEPT !.pc = "lock"] ELSE Ended(chk)

\* scrapePrice returned an error: the check logs it and returns.
checkFetchError(p) ==
    /\ Running
    /\ checks[p].pc = "fetch"
    /\ checks' = [checks EXCEPT ![p] = Ended(@)]
    /\ UNCHANGED <<trackingItems, clients, send, closed, cl, readers, fault, tracked,
                   alerted, obs, ops, tracker, scraper>>

\* scrapePrice returned a price: the check compares it with the target of its copy.
Compare(p, price) ==
    /\ Running
    /\ checks[p].pc = "fetch"
    /\ checks' = [checks EXCEPT ![p] =
                      IF IsBelowTarget(price, @.target)
                      THEN [@ EXCEPT !.price = price, !.pc = "rlock"]
                      ELSE Ended([@ EXCEPT !.price = price])]
    /\ UNCHANGED <<trackingItems, clients, send, closed, cl, readers, fault, tracked,
                   alerted, ops, tracker, scraper>>

checkFetched(p, price) == Compare(p, price) /\ UNCHANGED obs

\* A broadcast that ranges over every connection there can be, registered or not.
broadcastRLockAll(p) ==
    /\ Running
    /\ checks[p].pc = "rlock"
    /\ readers' = readers \cup {p}
    /\ checks' = [checks EXCEPT ![p].pc = "loop", ![p].todo = ClientIds]
    /\ UNCHANGED <<trackingItems, clients, send, closed, cl, fault, tracked, alerted,
                   obs, ops, tracker, scraper>>

\* mu.RLock(); for client := range clients { ... starts.
broadcastRLock(p) ==
    /\ Running
    /\ checks[p].pc = "rlock"
    /\ readers' = readers \cup {p}
    /\ checks' = [checks EXCEPT ![p].pc = "loop", ![p].todo = clients]
    /\ UNCHANGED <<trackingItems, clients, send, closed, cl, fault, tracked, alerted,
                   obs, ops, tracker, scraper>>

\* An alert without the target of the item.
AlertNoTarget(chk) == PriceAlert(chk.id, chk.url, chk.price, 0)

\* The alert a goroutine broadcasts.
AlertOf(chk) == PriceAlert(chk.id, chk.url, chk.price, chk.target)

\* select { case client.send <- alert: ... default: ... } on one client's channel.
SelectSend(ch, isClosed) ==
    IF isClosed THEN "panic"
    ELSE IF Len(ch) < SendCap THEN "sent" ELSE "default"

\* One iteration of the range loop reaches client c and runs the select.  A client
\* that another broadcast has deleted meanwhile (a write under the read lock,
\* racing with this iteration) may still be produced.
broadcastSelect(p, c) ==
    /\ Running
    /\ checks[p].pc = "loop"
    /\ c \in checks[p].todo
    /\ CASE SelectSend(send[c], closed[c]) = "panic" ->
              /\ fault' = "send on closed channel"
              /\ UNCHANGED <<send, checks>>
         [] SelectSend(send[c], closed[c]) = "sent" ->
              /\ send' = [send EXCEPT ![c] = Append(@, AlertOf(checks[p]))]
              /\ checks' = [checks EXCEPT ![p].todo = @ \ {c},
                                          ![p].sent = @ \cup {c}]
              /\ UNCHANGED fault
         [] SelectSend(send[c], closed[c]) = "default" ->
              /\ checks' = [checks EXCEPT ![p].todo = @ \ {c}, ![p].cur = c,
                                          ![p].pc = "close"]
              /\ UNCHANGED <<send, fault>>
    /\ UNCHANGED <<trackingItems, clients, closed, cl, readers, tracked, alerted, obs,
                   ops, tracker, scraper>>

\* The range loop does not produce an entry that was deleted before it was reached.
broadcastSkip(p, c) ==
    /\ Running
    /\ checks[p].pc = "loop"
    /\ c \in checks[p].todo
    /\ c \notin clients
    /\ checks' = [checks EXCEPT ![p].todo = @ \ {c}]
    /\ UNCHANGED <<trackingItems, clients, send, closed, cl, readers, fault, tracked,
                   alerted, obs, ops, tracker, scraper>>

\* default: close(client.send)
broadcastClose(p) ==
    /\ Running
    /\ checks[p].pc = "close"
    /\ IF closed[checks[p].cur]
       THEN /\ fault' = "close of closed channel"
            /\ UNCHANGED <<closed, checks>>
       ELSE /\ closed' = [closed EXCEPT ![checks[p].cur] = TRUE]
            /\ checks' = [checks EXCEPT ![p].pc = "delete"]
            /\ UNCHANGED fault
    /\ UNCHANGED <<trackingItems, clients, send, cl, readers, tracked, alerted, obs,
                   ops, tracker, scraper>>

\* A default case that closes the channel but leaves the client registered.
broadcastDeleteKeeps(p) ==
    /\ Running
    /\ checks[p].pc = "delete"
    /\ checks' = [checks EXCEPT ![p].pc = "loop", ![p].cur = ""]
    /\ UNCHANGED <<trackingItems, clients, send, closed, cl, readers, fault, tracked,
                   alerted, obs, ops, tracker, scraper>>

\* default: delete(clients, client), executed under the read lock.  Every other
\* goroutine that holds the read lock has a read of clients ahead (the next step of
\* its range loop) or a delete of its own, so with another reader this write is a
\* data race: the runtime may detect it ("concurrent map iteration and map write")
\* and end the process, or not.
broadcastDelete(p) ==
    /\ Running
    /\ checks[p].pc = "delete"
    /\ \/ /\ clients' = clients \ {checks[p].cur}
          /\ checks' = [checks EXCEPT ![p].pc = "loop", ![p].cur = ""]
          /\ UNCHANGED fault
       \/ /\ readers \ {p} # {}
          /\ fault' = "concurrent map iteration and map write"
          /\ UNCHANGED <<clients, checks>>
    /\ UNCHANGED <<trackingItems, send, closed, cl, readers, tracked, alerted, obs, ops,
                   tracker, scraper>>

\* The range loop is over: mu.RUnlock().  The alert has been broadcast.
broadcastRUnlock(p) ==
    /\ Running
    /\ checks[p].pc = "loop"
    /\ checks[p].todo = {}
    /\ readers' = readers \ {p}
    /\ checks' = [checks EXCEPT ![p] = AfterBroadcast(@)]
    /\ alerted' = IF checks[p].kind = "poll"
                  THEN [alerted EXCEPT ![checks[p].id] = Again(@)] ELSE alerted
    /\ UNCHANGED <<trackingItems, clients, send, closed, cl, fault, tracked, obs, ops,
                   tracker, scraper>>

\* checkAndNotify's last section: mu.Lock(); delete(trackingItems, id); mu.Unlock().
StopMonitoring(items, id) == Delete(items, id)

checkDelete(p) ==
    /\ Running
    /\ checks[p].pc = "lock"
    /\ CanLock
    /\ trackingItems' = StopMonitoring(trackingItems, checks[p].id)
    /\ checks' = [checks EXCEPT ![p] = Ended(@)]
    /\ UNCHANGED <<clients, send, closed, cl, readers, fault, tracked, alerted, obs,
                   ops, tracker, scraper>>

\* ------------------------------------------------------ checkPriceHandler

\* What scrapePrice can return to a handler: an error (with price 0) or a price.
ScrapeResults ==
    {[err |-> TRUE, price |-> 0]} \cup {[err |-> FALSE, price |-> x] : x \in Prices}

\* checkPriceHandler's validation: the request is rejected.
InvalidCheck(url, target) == url = "" \/ target <= 0

\* POST /api/check-price: validate, fetch, and when the price is at or below the
\* target start a goroutine that broadcasts an alert with a temporary id.  The
\* registry is not touched.
checkPriceHandler(url, target, res) ==
    /\ Running
    /\ IF InvalidCheck(url, target) \/ res.err \/ ~IsBelowTarget(res.price, target)
       THEN UNCHANGED checks
       ELSE /\ FreeSlots # {}
            /\ checks' = [checks EXCEPT ![FirstFree] =
                              NewCheck("once", "check", url, target, "rlock",
                                       res.price)]
    /\ UNCHANGED <<trackingItems, clients, send, closed, cl, readers, fault, tracked,
                   alerted, obs, ops, tracker, scraper>>

\* ------------------------------------------------------------ websockets

\* GET /ws: a new client with an empty channel is registered under mu.Lock(), and
\* its two pumps are started.
handleWebSocket(c) ==
    /\ Running
    /\ cl[c] = "none"
    /\ CanLock
    /\ clients' = clients \cup {c}
    /\ cl' = [cl EXCEPT ![c] = "open"]
    /\ UNCHANGED <<trackingItems, send, closed, readers, checks, fault, tracked,
                   alerted, obs, ops, tracker, scraper>>

\* readPump: ReadMessage fails (the peer went away); the connection is closed and
\* the goroutine ends.  The client stays in clients.
readPump(c) ==
    /\ Running
    /\ cl[c] = "open"
    /\ cl' = [cl EXCEPT ![c] = "gone"]
    /\ UNCHANGED <<trackingItems, clients, send, closed, readers, checks, fault,
                   tracked, alerted, obs, ops, tracker, scraper>>

\* writePump is in its receive loop.
Pumping(c) == cl[c] \in {"open", "gone"}

\* writePump receives an alert and writes it; a failed write ends the loop, and a
\* write on a connection readPump has closed fails.
writePumpAlert(c, writeOk) ==
    /\ Running
    /\ Pumping(c)
    /\ Len(send[c]) > 0
    /\ send' = [send EXCEPT ![c] = Tail(@)]
    /\ cl' = [cl EXCEPT ![c] = IF writeOk /\ @ = "open" THEN @ ELSE "exiting"]
    /\ UNCHANGED <<trackingItems, clients, closed, readers, checks, fault, tracked,
                   alerted, obs, ops, tracker, scraper>>

\* writePump receives from the closed and drained channel (!ok) and returns.
writePumpClosed(c) ==
    /\ Running
    /\ Pumping(c)
    /\ Len(send[c]) = 0
    /\ closed[c]
    /\ cl' = [cl EXCEPT ![c] = "exiting"]
    /\ UNCHANGED <<trackingItems, clients, send, closed, readers, checks, fault,
                   tracked, alerted, obs, ops, tracker, scraper>>

\* writePump's deferred function: mu.Lock(); delete(clients, c); mu.Unlock().
writePumpExit(c) ==
    /\ Running
    /\ cl[c] = "exiting"
    /\ CanLock
    /\ clients' = clients \ {c}
    /\ cl' = [cl EXCEPT ![c] = "done"]
    /\ UNCHANGED <<trackingItems, send, closed, readers, checks, fault, tracked,
                   alerted, obs, ops, tracker, scraper>>

\* ------------------------------------------------------- the whole server

\* The track requests of the callers: an item, a second request for its id with
\* another url, and the three kinds of invalid request.  The whole-server
\* specification never tracks id "B": untracking it is the untrack of an unknown id.
Requests ==
    {TrackingRequest("A", "u1", 100), TrackingRequest("A", "u2", 100),
     TrackingRequest("", "u1", 100), TrackingRequest("A", "", 100),
     TrackingRequest("A", "u1", 0)}

\* The check-price requests of the callers: one valid, two invalid.
CheckInputs == {<<"u1", 100>>, <<"", 100>>, <<"u1", 0>>}

\* The steps of the goroutine in slot p after its fetch: the broadcast loop.
Broadcast(p) ==
    \/ broadcastRLock(p)
    \/ \E c \in ClientIds : broadcastSelect(p, c)
    \/ broadcastClose(p)
    \/ broadcastDelete(p)
    \/ broadcastRUnlock(p)

\* The steps of the HTTP handlers on the registry.
Registry(reqs) ==
    \/ \E req \in reqs : trackPriceHandler(req)
    \/ \E id \in Ids : untrackPriceHandler(id)

\* The steps of the scheduler and of the checks it launches, but for the fetch.
Polling ==
    \/ monitorPrices
    \/ \E p \in Slots : checkFetchError(p)
    \/ \E p \in Slots : Broadcast(p)
    \/ \E p \in Slots : \E c \in ClientIds : broadcastSkip(p, c)
    \/ \E p \in Slots : checkDelete(p)

\* The steps of the websocket connections in cids.
Sockets(cids) ==
    \/ \E c \in cids : handleWebSocket(c)
    \/ \E c \in cids : readPump(c)
    \/ \E c \in cids : \E writeOk \in BOOLEAN : writePumpAlert(c, writeOk)
    \/ \E c \in cids : writePumpClosed(c)
    \/ \E c \in cids : writePumpExit(c)

\* The connections the whole-server specification makes.
ServerClients == {"c1"}

Next ==
    \/ Registry(Requests)
    \/ Polling
    \/ \E p \in Slots : \E price \in Prices : checkFetched(p, price)
    \/ \E in \in CheckInputs : \E res \in ScrapeResults :
           checkPriceHandler(in[1], in[2], res)
    \/ Sockets(ServerClients)

Spec == Init /\ [][Next]_vars

\* The polling side of the server with two items and no client: the registry
\* handlers, the scheduler and its checks.  With no client the broadcast loop has
\* no iteration.
PollRequests == {TrackingRequest("A", "u1", 100), TrackingRequest("B", "u1", 100)}

NextPoll ==
    \/ Registry(PollRequests)
    \/ monitorPrices
    \/ \E p \in Slots : checkFetchError(p)
    \/ \E p \in Slots : \E price \in Prices : checkFetched(p, price)
    \/ \E p \in Slots : broadcastRLock(p)
    \/ \E p \in Slots : broadcastRUnlock(p)
    \/ \E p \in Slots : checkDelete(p)

\* The fetch of the check in slot p returns.
fetchReturns(p) == checkFetchError(p) \/ \E price \in Prices : checkFetched(p, price)

\* The broadcast of the check in slot p: with no client, RLock and RUnlock.
emptyBroadcast(p) == broadcastRLock(p) \/ broadcastRUnlock(p)

\* The Go scheduler runs every goroutine that can run; a goroutine that waits in
\* mu.Lock() gets the lock (a waiting Lock keeps new readers out); and the fetch of
\* every id but "A" returns.  A fetch of "A" may never return.
SpecPoll ==
    /\ Init /\ [][NextPoll]_vars
    /\ \A p \in Slots : WF_vars(emptyBroadcast(p))
    /\ \A p \in Slots : SF_vars(checkDelete(p))
    /\ \A p \in Slots : WF_vars(checks[p].id # "A" /\ fetchReturns(p))

\* The polling side of the server with every kind of track request: two ids, a
\* second url for one of them, and the invalid requests.
TrackRequests == Requests \cup PollRequests

NextRegistry ==
    \/ Registry(TrackRequests)
    \/ monitorPrices
    \/ \E p \in Slots : checkFetchError(p)
    \/ \E p \in Slots : \E price \in Prices : checkFetched(p, price)
    \/ \E p \in Slots : broadcastRLock(p)
    \/ \E p \in Slots : broadcastRUnlock(p)
    \/ \E p \in Slots : checkDelete(p)

SpecRegistry == Init /\ [][NextRegistry]_vars

\* The websocket side of the server: connections, their pumps, and the broadcasts
\* of check-price requests.
NextSockets ==
    \/ Sockets(ServerClients)
    \/ \E in \in CheckInputs : \E res \in ScrapeResults :
           checkPriceHandler(in[1], in[2], res)
    \/ \E p \in Slots : Broadcast(p)

\* The server without its scheduler: the registry handlers, check-price requests
\* with their broadcasts, and the connections.
NextCheckPrice ==
    \/ Registry(Requests)
    \/ NextSockets

SpecCheckPrice == Init /\ [][NextCheckPrice]_vars

\* The steps of the writePump goroutine of client c.
writePump(c) ==
    \/ \E writeOk \in BOOLEAN : writePumpAlert(c, writeOk)
    \/ writePumpClosed(c)
    \/ writePumpExit(c)

\* The Go scheduler runs every goroutine that can run: the pumps and the
\* broadcasts.  Requests and the peer's disconnection come when they come.
SpecSockets ==
    /\ Init /\ [][NextSockets]_vars
    /\ \A c \in ServerClients : WF_vars(writePump(c))
    /\ \A p \in Slots : WF_vars(Broadcast(p))

\* ------------------------------------------- one publish, from any start

\* An alert an earlier check-price request broadcast, still in a client's channel.
EarlierAlert == PriceAlert("check", "u2", 95, 100)

\* A channel that holds n alerts.
Fill(n) == [i \in 1..n |-> EarlierAlert]

\* The item whose check publishes.
PublishItem == TrackingRequest("A", "u1", 100)

\* A goroutine is about to broadcast (a check of a tracked item, or the goroutine
\* of checkPriceHandler), with any set of clients registered and any number of
\* alerts waiting in each client's channel.
InitPublish ==
    \E S \in SUBSET ClientIds : \E kind \in {"poll", "once"} :
        /\ clients = S
        /\ send \in {f \in [ClientIds -> {Fill(n) : n \in 0..SendCap}] :
                        \A c \in ClientIds \ S : f[c] = <<>>}
        /\ closed = [c \in ClientIds |-> FALSE]
        /\ cl = [c \in ClientIds |-> IF c \in S THEN "open" ELSE "none"]
        /\ readers = {}
        /\ trackingItems = IF kind = "poll"
                           THEN Put(<<>>, PublishItem.ID, PublishItem) ELSE <<>>
        /\ checks = [p \in Slots |->
                        IF p = 1
                        THEN IF kind = "poll"
                             THEN NewCheck("poll", PublishItem.ID, PublishItem.URL,
                                           PublishItem.TargetPrice, "rlock", 95)
                             ELSE NewCheck("once", "check", "u1", 100, "rlock", 95)
                        ELSE IdleCheck]
        /\ fault = "none"
        /\ tracked = [i \in Ids |-> IF kind = "poll" /\ i = PublishItem.ID
                                    THEN "once" ELSE "never"]
        /\ alerted = [i \in Ids |-> "never"]
        /\ obs = <<>>
        /\ ops = [h \in Handlers |-> IdleOp]
        /\ tracker = NoTracker
        /\ scraper = NoCall
    /\ scraper = NoCall

\* The publisher runs alone: nothing drains a channel, nobody connects.
NextPublish ==
    \/ \E p \in Slots : Broadcast(p)
    \/ \E p \in Slots : checkDelete(p)

SpecPublish == InitPublish /\ [][NextPublish]_vars

\* ------------------------------------------------ the end-to-end scenario

\* The prices the successive polls of the scenario observe.
Script == <<120, 95>>

\* The item of the scenario.
E2ERequest == TrackingRequest("A", "u1", 100)

\* The clients that connect and disconnect during the scenario.
E2EClients == {"c1", "c2"}

\* No check is running.
AllIdle == \A p \in Slots : checks[p].pc = "idle"

\* A poll of the scenario observes the next price of the script.
pollObserves(p) ==
    /\ Len(obs) < Len(Script)
    /\ Compare(p, Script[Len(obs) + 1])
    /\ obs' = Append(obs, Script[Len(obs) + 1])

\* track(A, 100), then one poll after the other; clients come and go.  Only one
\* alert is ever published, so no channel is ever full.
NextE2E ==
    \/ tracked[E2ERequest.ID] = "never" /\ trackPriceHandler(E2ERequest)
    \/ AllIdle /\ Len(obs) < Len(Script) /\ monitorPrices
    \/ \E p \in Slots : pollObserves(p)
    \/ \E p \in Slots : broadcastRLock(p)
    \/ \E p \in Slots : \E c \in ClientIds : broadcastSelect(p, c)
    \/ \E p \in Slots : broadcastRUnlock(p)
    \/ \E p \in Slots : checkDelete(p)
    \/ \E c \in E2EClients : handleWebSocket(c)
    \/ \E c \in E2EClients : readPump(c)
    \/ \E c \in E2EClients : \E writeOk \in BOOLEAN : writePumpAlert(c, writeOk)
    \/ \E c \in E2EClients : writePumpExit(c)

SpecE2E == Init /\ [][NextE2E]_vars

\* ------------------------------------- the registry, statement by statement

\* The handlers that hold mu.Lock(): from the return of Lock() to Unlock().
WriteHolders ==
    {h \in Handlers : ops[h].kind \in {"track", "untrack", "crossing"}
                      /\ ops[h].pc \in {"held", "unlock"}}

\* The handlers that hold mu.RLock().
ReadHolders ==
    {h \in Handlers : ops[h].kind = "list" /\ ops[h].pc \in {"held", "unlock"}}

\* A lock that is always granted.
LockAlways(ws, rs) == TRUE

\* mu.Lock() returns when nobody holds the lock, for writing or for reading.
LockFree(ws, rs) == ws = {} /\ rs = {}

\* mu.RLock() returns when nobody holds the lock for writing.
RLockFree(ws) == ws = {}

\* The requests the handlers of SpecLock get: valid track requests for two ids,
\* one of them for an id with another url; untrack and the crossing check's
\* delete use the id of the request.
LockRequests ==
    {TrackingRequest("A", "u1", 100), TrackingRequest("A", "u2", 100),
     TrackingRequest("B", "u1", 100)}

\* A handler (or, for "crossing", a check that has broadcast its alert) gets to
\* its critical section.
opStart(h, kind, req) ==
    /\ ops[h].pc = "idle"
    /\ ops' = [ops EXCEPT ![h] = [IdleOp EXCEPT !.kind = kind, !.pc = "lock",
                                               !.req = req]]
    /\ UNCHANGED <<trackingItems, clients, send, closed, cl, readers, checks, fault,
                   tracked, alerted, obs, tracker, scraper>>

\* mu.Lock() or, in getTrackedItemsHandler, mu.RLock() returns.
opLock(h) ==
    /\ ops[h].pc = "lock"
    /\ IF ops[h].kind = "list"
       THEN RLockFree(WriteHolders)
       ELSE LockFree(WriteHolders, ReadHolders \cup readers)
    /\ ops' = [ops EXCEPT ![h].pc = "held", ![h].snap = trackingItems]
    /\ UNCHANGED <<trackingItems, clients, send, closed, cl, readers, checks, fault,
                   tracked, alerted, obs, tracker, scraper>>

\* What the statement between Lock() and Unlock() makes of the registry.
Mutation(kind, req, items) ==
    CASE kind = "track" -> TrackStore(items, req)
      [] kind = "untrack" -> Delete(items, req.ID)
      [] kind = "crossing" -> StopMonitoring(items, req.ID)

\* The statement between Lock() and Unlock().
opWrite(h) ==
    /\ ops[h].pc = "held"
    /\ ops[h].kind \in {"track", "untrack", "crossing"}
    /\ trackingItems' = Mutation(ops[h].kind, ops[h].req, trackingItems)
    /\ ops' = [ops EXCEPT ![h].pc = "unlock"]
    /\ UNCHANGED <<clients, send, closed, cl, readers, checks, fault, tracked,
                   alerted, obs, tracker, scraper>>

\* One iteration of getTrackedItemsHandler's range loop: the next entry of the
\* map as it is now is appended to items.
opCopy(h, id) ==
    /\ ops[h].pc = "held"
    /\ ops[h].kind = "list"
    /\ id \in DOMAIN trackingItems \ ops[h].seen
    /\ ops' = [ops EXCEPT ![h].seen = @ \cup {id},
                          ![h].items = @ \cup {trackingItems[id]}]
    /\ UNCHANGED <<trackingItems, clients, send, closed, cl, readers, checks, fault,
                   tracked, alerted, obs, tracker, scraper>>

\* The range loop has been through the map.
opCopyEnd(h) ==
    /\ ops[h].pc = "held"
    /\ ops[h].kind = "list"
    /\ DOMAIN trackingItems \subseteq ops[h].seen
    /\ ops' = [ops EXCEPT ![h].pc = "unlock"]
    /\ UNCHANGED <<trackingItems, clients, send, closed, cl, readers, checks, fault,
                   tracked, alerted, obs, tracker, scraper>>

\* mu.Unlock() or mu.RUnlock(); the handler answers and ends.
opUnlock(h) ==
    /\ ops[h].pc = "unlock"
    /\ ops' = [ops EXCEPT ![h] = IdleOp]
    /\ UNCHANGED <<trackingItems, clients, send, closed, cl, readers, checks, fault,
                   tracked, alerted, obs, tracker, scraper>>

NextLock ==
    \/ \E h \in Handlers : \E kind \in {"track", "untrack", "crossing"} :
           \E req \in LockRequests : opStart(h, kind, req)
    \/ \E h \in Handlers : opStart(h, "list", TrackingRequest("", "", 0))
    \/ \E h \in Handlers : opLock(h)
    \/ \E h \in Handlers : opWrite(h)
    \/ \E h \in Handlers : \E id \in Ids : opCopy(h, id)
    \/ \E h \in Handlers : opCopyEnd(h)
    \/ \E h \in Handlers : opUnlock(h)

SpecLock == Init /\ [][NextLock]_vars

\* The frame of every step outside the server: the server's state.
ServerUnchanged ==
    UNCHANGED <<trackingItems, clients, send, closed, cl, readers, checks, fault,
                tracked, alerted, obs, ops>>

\* ------------------------------------------------ package scraper: the parser

\* A text is a sequence of characters.  The characters of the texts that are
\* enumerated: digits, the two separators, a sign, a currency symbol (the replacer
\* treats its four currency symbols alike) and a letter.
Alphabet == {"0", "1", ",", ".", "-", "$", "x"}

\* The length of the enumerated texts.
MaxText == 4

DigitChars == <<"0", "1", "2", "3", "4", "5", "6", "7", "8", "9">>

IsDigit(c) == \E i \in 1..10 : DigitChars[i] = c

DigitOf(c) == (CHOOSE i \in 1..10 : DigitChars[i] = c) - 1

\* strings.Count(s, c), strings.Contains(s, c)
CountOf(s, c) == Cardinality({i \in 1..Len(s) : s[i] = c})

Contains(s, c) == \E i \in 1..Len(s) : s[i] = c

\* strings.LastIndex(s, c): the index from 0, -1 when c is not in s.
LastIndex(s, c) ==
    IF Contains(s, c)
    THEN (CHOOSE i \in 1..Len(s) : s[i] = c /\ \A j \in (i + 1)..Len(s) : s[j] # c) - 1
    ELSE -1

\* strings.ReplaceAll(s, c, ""), and the replacer's removal of a set of characters.
Without(s, cs) == SelectSeq(s, LAMBDA x : x \notin cs)

\* strings.ReplaceAll(s, old, new) for single characters.
ReplaceAll(s, old, new) == [i \in 1..Len(s) |-> IF s[i] = old THEN new ELSE s[i]]

\* The number a sequence of digits writes.
RECURSIVE NatOf(_)
NatOf(ds) ==
    IF ds = <<>> THEN 0 ELSE 10 * NatOf(SubSeq(ds, 1, Len(ds) - 1)) + DigitOf(ds[Len(ds)])

\* A sequence of digits without its zeros at the end.
RECURSIVE TrimZeros(_)
TrimZeros(ds) ==
    IF ds # <<>> /\ ds[Len(ds)] = "0" THEN TrimZeros(SubSeq(ds, 1, Len(ds) - 1)) ELSE ds

\* A float64 that a decimal text writes: (-1)^neg * mant / 10^frac, with no zero
\* at the end of the fraction.  -0 is 0 in every comparison.
Decimal(neg, whole, fraction) ==
    LET fr == TrimZeros(fraction)
        mant == NatOf(whole \o fr)
    IN [neg |-> neg /\ mant # 0, mant |-> mant, frac |-> Len(fr)]

Zero == Decimal(FALSE, <<>>, <<>>)

\* strconv.ParseFloat(s, 64) on texts without a letter but "x": an optional sign,
\* digits with at most one point, one digit at least.  (Exponents, hexadecimal
\* floats, "inf" and "nan" need letters that no text here has.)
ParseFloat(s) ==
    LET signed == s # <<>> /\ s[1] \in {"+", "-"}
        body == IF signed THEN Tail(s) ELSE s
        point == IF Contains(body, ".") THEN LastIndex(body, ".") + 1 ELSE Len(body) + 1
        whole == SubSeq(body, 1, point - 1)
        fraction == SubSeq(body, point + 1, Len(body))
    IN IF /\ \A i \in 1..Len(body) : IsDigit(body[i]) \/ body[i] = "."
          /\ CountOf(body, ".") <= 1
          /\ \E i \in 1..Len(body) : IsDigit(body[i])
       THEN [err |-> FALSE, price |-> Decimal(signed /\ s[1] = "-", whole, fraction)]
       ELSE [err |-> TRUE, price |-> Zero]

\* What the replacer of ParsePriceString removes.
Removed == {"$", ",", " "}

\* The rewriting of the cleaned text before it is parsed: the European form, then
\* the comma as the decimal separator.
Localized(cleanedStr) ==
    IF CountOf(cleanedStr, ".") > 1 /\ Contains(cleanedStr, ",")
    THEN ReplaceAll(Without(cleanedStr, {"."}), ",", ".")
    ELSE IF Contains(cleanedStr, ",") /\ ~Contains(cleanedStr, ".")
         THEN IF LastIndex(cleanedStr, ",") = Len(cleanedStr) - 3
              THEN ReplaceAll(cleanedStr, ",", ".")
              ELSE cleanedStr
         ELSE cleanedStr

\* ParsePriceString(priceStr)
ParsePriceString(priceStr) == ParseFloat(Localized(Without(priceStr, Removed)))

\* The texts of length n, and the texts that are parsed: every text up to MaxText
\* and the prices as the sites write them.
RECURSIVE TextsOf(_)
TextsOf(n) ==
    IF n = 0 THEN {<<>>} ELSE {Append(t, c) : t \in TextsOf(n - 1), c \in Alphabet}

SiteTexts ==
    {<<"6", "0", ",", "1", "0", "0">>,
     <<"1", ".", "2", "3", "4", ",", "5", "6">>,
     <<"2", "9", ".", "9", "9">>,
     <<"1", ",", "2", "3">>,
     <<"$", "1", ",", "2", "3", "4", ".", "5", "0">>,
     <<"-", "2", "9", ".", "9", "9">>}

Texts == UNION {TextsOf(n) : n \in 0..MaxText} \cup SiteTexts

\* The server idle and no Tracker: the state in which package scraper is followed
\* on its own.
NoServer ==
    /\ trackingItems = <<>>
    /\ clients = {}
    /\ send = [c \in ClientIds |-> <<>>]
    /\ closed = [c \in ClientIds |-> FALSE]
    /\ cl = [c \in ClientIds |-> "none"]
    /\ readers = {}
    /\ checks = [p \in Slots |-> IdleCheck]
    /\ fault = "none"
    /\ tracked = [i \in Ids |-> "never"]
    /\ alerted = [i \in Ids |-> "never"]
    /\ obs = <<>>
    /\ ops = [h \in Handlers |-> IdleOp]
    /\ tracker = NoTracker

\* A call of ParsePriceString and what it returned.
ParseCall(t) == [pc |-> "parse", text |-> t, err |-> FALSE, price |-> Zero]

ParsePriceStringReturns ==
    /\ scraper.pc = "parse"
    /\ scraper' = [scraper EXCEPT !.pc = "parsed",
                                  !.err = ParsePriceString(scraper.text).err,
                                  !.price = ParsePriceString(scraper.text).price]
    /\ ServerUnchanged
    /\ UNCHANGED tracker

InitParse == NoServer /\ scraper \in {ParseCall(t) : t \in Texts}

NextParse == ParsePriceStringReturns

SpecParse == InitParse /\ [][NextParse]_vars

\* ------------------------------------------------ package scraper, in outline

\* The id ScrapePrice returns for the Amazon composite strategy.
CompositeId == ".a-price-whole (composite)"

\* commonSelectors, cut down to two of its entries, in their order.
commonSelectors == <<".a-offscreen", ".price">>

\* The strategies in the order ScrapePrice tries them.
Strategies == <<CompositeId>> \o commonSelectors

\* The prices a page can show to a Tracker.
PagePrices == {0, 95, 120}

\* What a strategy finds on a page: no text, text that ParsePriceString rejects,
\* or text that it parses to a price.
Findings == {"none", "bad", "ok"}

\* What a GET of the url returns, as the strategies see it: whether there is a
\* usable document (no error, status 200), what each strategy finds in it, and
\* the price its text is parsed to.
NoDoc ==
    [up |-> FALSE, found |-> [i \in 1..Len(Strategies) |-> "none"],
     price |-> [i \in 1..Len(Strategies) |-> 0]]

\* The documents a Tracker gets: none, or a page that shows one price, on which
\* each strategy finds something or not.
Docs ==
    {NoDoc}
    \cup {[up |-> TRUE, found |-> f, price |-> [i \in 1..Len(Strategies) |-> p]] :
             f \in [1..Len(Strategies) -> Findings], p \in PagePrices}

\* The place of a selector among the strategies, 0 when it is none of them (the
\* empty selector and any text that is no selector of the page).
StrategyOf(selector) ==
    IF \E i \in 1..Len(Strategies) : Strategies[i] = selector
    THEN CHOOSE i \in 1..Len(Strategies) : Strategies[i] = selector
    ELSE 0

\* ScrapePriceWithSelector(url, selector): only the given strategy is applied.
ScrapePriceWithSelector(doc, selector) ==
    IF doc.up /\ StrategyOf(selector) # 0 /\ doc.found[StrategyOf(selector)] = "ok"
    THEN [err |-> FALSE, price |-> doc.price[StrategyOf(selector)]]
    ELSE [err |-> TRUE, price |-> 0]

\* A search that returns the last strategy whose text is parsed.
ScrapePriceLast(doc) ==
    IF doc.up /\ \E i \in 1..Len(Strategies) : doc.found[i] = "ok"
    THEN LET last == CHOOSE i \in 1..Len(Strategies) :
                         /\ doc.found[i] = "ok"
                         /\ \A j \in (i + 1)..Len(Strategies) : doc.found[j] # "ok"
         IN [err |-> FALSE, price |-> doc.price[last], selector |-> Strategies[last]]
    ELSE [err |-> TRUE, price |-> 0, selector |-> ""]

\* A search that ends at the first strategy that finds text, parsed or not.
ScrapePriceStops(doc) ==
    IF doc.up /\ \E i \in 1..Len(Strategies) : doc.found[i] # "none"
    THEN LET first == CHOOSE i \in 1..Len(Strategies) :
                          /\ doc.found[i] # "none"
                          /\ \A j \in 1..(i - 1) : doc.found[j] = "none"
         IN IF doc.found[first] = "ok"
            THEN [err |-> FALSE, price |-> doc.price[first],
                  selector |-> Strategies[first]]
            ELSE [err |-> TRUE, price |-> 0, selector |-> ""]
    ELSE [err |-> TRUE, price |-> 0, selector |-> ""]

\* ScrapePrice(url): the first strategy, in order, whose text is parsed.
ScrapePrice(doc) ==
    IF doc.up /\ \E i \in 1..Len(Strategies) : doc.found[i] = "ok"
    THEN LET first == CHOOSE i \in 1..Len(Strategies) :
                          /\ doc.found[i] = "ok"
                          /\ \A j \in 1..(i - 1) : doc.found[j] # "ok"
         IN [err |-> FALSE, price |-> doc.price[first], selector |-> Strategies[first]]
    ELSE [err |-> TRUE, price |-> 0, selector |-> ""]

\* ------------------------------------------------ package scraper: the pages

\* A page as the selectors see it: the first .a-price-whole element and its
\* .a-price-fraction sibling, each absent (<<>>) or with its trimmed text (<<t>>),
\* and for each of commonSelectors the first text or content attribute that is not
\* empty among its matches (<<>> when there is none).
NoPage ==
    [up |-> FALSE, whole |-> <<>>, fraction |-> <<>>,
     text |-> [i \in 1..Len(commonSelectors) |-> <<>>]]

WholeTexts ==
    {<<>>, <<<<>>>>, <<<<"x">>>>, <<<<"1", ",", "2", "3", "4">>>>,
     <<<<"1", ",", "2", "3", "4", ".">>>>}

FractionTexts == {<<>>, <<<<"9", "9">>>>, <<<<"x">>>>}

SelectorTexts ==
    {<<>>, <<"x">>, <<"$", "2", "9", ".", "9", "9">>, <<"6", "0", ",", "1", "0", "0">>}

Pages ==
    {NoPage}
    \cup [up : {TRUE}, whole : WholeTexts, fraction : FractionTexts,
          text : [1..Len(commonSelectors) -> SelectorTexts]]

\* strings.TrimSuffix(s, ".")
TrimSuffixPoint(s) ==
    IF s # <<>> /\ s[Len(s)] = "." THEN SubSeq(s, 1, Len(s) - 1) ELSE s

\* A composite text that leaves the fraction element out.
CompositeWhole(page) ==
    IF page.whole = <<>>
    THEN <<>>
    ELSE TrimSuffixPoint(Without(page.whole[1], {","})) \o <<".", "0", "0">>

\* amazonPriceText: empty without a .a-price-whole element, else the whole part
\* without its commas and its point at the end, a point, and the fraction part,
\* "00" without a fraction element.
CompositeText(page) ==
    IF page.whole = <<>>
    THEN <<>>
    ELSE TrimSuffixPoint(Without(page.whole[1], {","})) \o <<".">>
         \o (IF page.fraction = <<>> THEN <<"0", "0">> ELSE page.fraction[1])

\* The text strategy i gets from the page: amazonPriceText or priceText.
StrategyText(page, i) == IF i = 1 THEN CompositeText(page) ELSE page.text[i - 1]

\* The document of a page: each strategy's text, handed to ParsePriceString when
\* it is not empty.
Read(page) ==
    [up |-> page.up,
     found |-> [i \in 1..Len(Strategies) |->
                    IF ~page.up \/ StrategyText(page, i) = <<>> THEN "none"
                    ELSE IF ParsePriceString(StrategyText(page, i)).err THEN "bad"
                    ELSE "ok"],
     price |-> [i \in 1..Len(Strategies) |->
                    ParsePriceString(StrategyText(page, i)).price]]

\* The calls of ScrapePrice and ScrapePriceWithSelector and what they returned.
ScrapeCall(page) ==
    [pc |-> "scrape", page |-> page, selector |-> "", err |-> FALSE, price |-> Zero,
     found |-> ""]

SelectorCall(page, selector) ==
    [pc |-> "select", page |-> page, selector |-> selector, err |-> FALSE,
     price |-> Zero, found |-> ""]

ScrapePriceReturns ==
    /\ scraper.pc = "scrape"
    /\ LET r == ScrapePrice(Read(scraper.page))
       IN scraper' = [scraper EXCEPT !.pc = "scraped", !.err = r.err,
                                     !.price = IF r.err THEN Zero ELSE r.price,
                                     !.found = r.selector]
    /\ ServerUnchanged
    /\ UNCHANGED tracker

ScrapePriceWithSelectorReturns ==
    /\ scraper.pc = "select"
    /\ LET r == ScrapePriceWithSelector(Read(scraper.page), scraper.selector)
       IN scraper' = [scraper EXCEPT !.pc = "selected", !.err = r.err,
                                     !.price = IF r.err THEN Zero ELSE r.price]
    /\ ServerUnchanged
    /\ UNCHANGED tracker

InitScrape ==
    /\ NoServer
    /\ scraper \in {ScrapeCall(page) : page \in Pages}
                   \cup {SelectorCall(page, s) :
                             page \in Pages,
                             s \in {Strategies[i] : i \in 1..Len(Strategies)} \cup {""}}

NextScrape ==
    \/ ScrapePriceReturns
    \/ ScrapePriceWithSelectorReturns

SpecScrape == InitScrape /\ [][NextScrape]_vars

\* ----------------------------------------------------- package tracker

\* What webpush.SendNotification returns: whether err is nil, whether resp is
\* nil, and the status of a response.
PushResults ==
    {[err |-> FALSE, resp |-> TRUE, status |-> 201],
     [err |-> FALSE, resp |-> TRUE, status |-> 410],
     [err |-> TRUE, resp |-> FALSE, status |-> 0],
     [err |-> TRUE, resp |-> TRUE, status |-> 404],
     [err |-> TRUE, resp |-> TRUE, status |-> 410],
     [err |-> TRUE, resp |-> TRUE, status |-> 500]}

\* A Tracker as its creator hands it to StartMonitoring: a threshold of 100, the
\* selector that worked first (or none), the last price known (or none).
Trackers ==
    {[NoTracker EXCEPT !.pc = "select", !.ThresholdPrice = 100, !.Selector = s,
                       !.selBefore = s, !.LastPrice = l] :
        s \in {"", CompositeId, ".price"}, l \in {0, 120}}

\* The loop goes on: no panic has ended the goroutine.
Monitoring == tracker.fault = "none"

\* The ticker puts a tick into ticker.C, which holds one tick at most.
tickerFires ==
    /\ Monitoring
    /\ tracker.pc \notin {"none", "returned"}
    /\ ~tracker.tick
    /\ tracker' = [tracker EXCEPT !.tick = TRUE]
    /\ ServerUnchanged
    /\ UNCHANGED scraper

\* select: case <-ticker.C.  A check starts.
selectTick ==
    /\ Monitoring
    /\ tracker.pc = "select"
    /\ tracker.tick
    /\ tracker' = [tracker EXCEPT !.pc = "fast", !.tick = FALSE, !.cur = 0,
                                  !.selBefore = tracker.Selector, !.fastErr = FALSE,
                                  !.ranFull = FALSE, !.fullErr = FALSE,
                                  !.fullSel = "", !.late = @ \/ tracker.stop]
    /\ ServerUnchanged
    /\ UNCHANGED scraper

\* select: case <-t.StopChan.  The loop returns.
selectStop ==
    /\ Monitoring
    /\ tracker.pc = "select"
    /\ tracker.stop
    /\ tracker' = [tracker EXCEPT !.pc = "returned"]
    /\ ServerUnchanged
    /\ UNCHANGED scraper

\* scraper.ScrapePriceWithSelector(t.URL, t.Selector)
scrapeFast(doc) ==
    /\ Monitoring
    /\ tracker.pc = "fast"
    /\ LET r == ScrapePriceWithSelector(doc, tracker.Selector)
       IN tracker' = IF r.err
                     THEN [tracker EXCEPT !.pc = "full", !.fastErr = TRUE]
                     ELSE [tracker EXCEPT !.pc = "compare", !.cur = r.price]
    /\ ServerUnchanged
    /\ UNCHANGED scraper

\* A fallback that never replaces the cached selector.
KeepSelector(cached, selector) == cached

\* The selector after a fallback that found selector: it replaces the cached one
\* when it is another one and not empty.
NewSelector(cached, selector) ==
    IF selector # cached /\ selector # "" THEN selector ELSE cached

\* The fallback scraper.ScrapePrice(t.URL): on an error the check is skipped, else
\* the selector is updated when a new one worked.
scrapeFallback(doc) ==
    /\ Monitoring
    /\ tracker.pc = "full"
    /\ LET r == ScrapePrice(doc)
       IN tracker' =
              IF r.err
              THEN [tracker EXCEPT !.pc = "select", !.ranFull = TRUE,
                                   !.fullErr = TRUE]
              ELSE [tracker EXCEPT !.pc = "compare", !.ranFull = TRUE,
                                   !.fullSel = r.selector, !.cur = r.price,
                                   !.Selector = NewSelector(@, r.selector)]
    /\ ServerUnchanged
    /\ UNCHANGED scraper

\* An alert condition that does not look at the last price.
PriceBelow(price, last, threshold) == price > 0 /\ price <= threshold

\* An alert condition that takes the last price itself for a drop.
PriceDropOrSame(price, last, threshold) ==
    price > 0 /\ price <= last /\ price <= threshold

\* The alert condition of StartMonitoring.
PriceDrop(price, last, threshold) == price > 0 /\ price < last /\ price <= threshold

\* The comparison with the last price and the threshold.
comparePrice ==
    /\ Monitoring
    /\ tracker.pc = "compare"
    /\ tracker' =
          IF PriceDrop(tracker.cur, tracker.LastPrice, tracker.ThresholdPrice)
          THEN [tracker EXCEPT !.pc = "notify"]
          ELSE IF tracker.cur > 0
               THEN [tracker EXCEPT !.pc = "select", !.LastPrice = tracker.cur]
               ELSE [tracker EXCEPT !.pc = "select"]
    /\ ServerUnchanged
    /\ UNCHANGED scraper

\* sendNotification closes StopChan: only after an error, with a response of
\* status 404 or 410.
ClosesStopChan(res) == res.err /\ res.resp /\ res.status \in {404, 410}

\* t.sendNotification(...), then t.LastPrice = currentPrice.
sendNotification(res) ==
    /\ Monitoring
    /\ tracker.pc = "notify"
    /\ tracker' =
          IF ClosesStopChan(res) /\ tracker.stop
          THEN [tracker EXCEPT !.fault = "close of closed channel",
                               !.notified = Again(@)]
          ELSE [tracker EXCEPT !.pc = "select", !.notified = Again(@),
                               !.stop = @ \/ ClosesStopChan(res),
                               !.LastPrice = tracker.cur]
    /\ ServerUnchanged
    /\ UNCHANGED scraper

NextTracker ==
    \/ tickerFires
    \/ selectTick
    \/ selectStop
    \/ \E doc \in Docs : scrapeFast(doc)
    \/ \E doc \in Docs : scrapeFallback(doc)
    \/ comparePrice
    \/ \E res \in PushResults : sendNotification(res)

\* The server idle and a Tracker started.
InitTracker ==
    /\ trackingItems = <<>>
    /\ clients = {}
    /\ send = [c \in ClientIds |-> <<>>]
    /\ closed = [c \in ClientIds |-> FALSE]
    /\ cl = [c \in ClientIds |-> "none"]
    /\ readers = {}
    /\ checks = [p \in Slots |-> IdleCheck]
    /\ fault = "none"
    /\ tracked = [i \in Ids |-> "never"]
    /\ alerted = [i \in Ids |-> "never"]
    /\ obs = <<>>
    /\ ops = [h \in Handlers |-> IdleOp]
    /\ tracker \in Trackers
    /\ scraper = NoCall

SpecTracker == InitTracker /\ [][NextTracker]_vars

\* The two programs of the repository, one at a time: the polling side of the
\* server, or a Tracker in its loop.
InitChecks == Init \/ InitTracker

\* The program that runs is the server.
ServerRuns == tracker.pc = "none"

NextChecks ==
    \/ \E req \in PollRequests : ServerRuns /\ trackPriceHandler(req)
    \/ \E id \in Ids : ServerRuns /\ untrackPriceHandler(id)
    \/ ServerRuns /\ monitorPrices
    \/ \E p \in Slots : ServerRuns /\ checkFetchError(p)
    \/ \E p \in Slots : \E price \in Prices : ServerRuns /\ checkFetched(p, price)
    \/ \E p \in Slots : ServerRuns /\ broadcastRLock(p)
    \/ \E p \in Slots : ServerRuns /\ broadcastRUnlock(p)
    \/ \E p \in Slots : ServerRuns /\ checkDelete(p)
    \/ NextTracker

SpecChecks == InitChecks /\ [][NextChecks]_vars

\* The alerts of the server: an item that is tracked and tracked again with another
\* url and target, the scheduler and its checks, check-price requests, and one
\* client that connects and reads.
AlertRequests == {TrackingRequest("A", "u1", 100), TrackingRequest("A", "u2", 95)}

NextAlerts ==
    \/ \E req \in AlertRequests : trackPriceHandler(req)
    \/ Polling
    \/ \E p \in Slots : \E price \in Prices : checkFetched(p, price)
    \/ \E in \in CheckInputs : \E res \in ScrapeResults :
           checkPriceHandler(in[1], in[2], res)
    \/ \E c \in ServerClients : handleWebSocket(c)
    \/ \E c \in ServerClients : writePumpAlert(c, TRUE)

SpecAlerts == Init /\ [][NextAlerts]_vars

\* ================================================================ claims

\* C1: a threshold crossing is reported exactly once per tracked item: the checks
\* of an id that was tracked once broadcast at most one alert.
C1AlertedOnce == \A id \in Ids : tracked[id] = "once" => alerted[id] # "again"

\* C2: detecting the crossing and removing the item are atomic: in no state does a
\* client's channel hold the alert of an item (tracked once) that is still in the
\* registry.
C2AlertedIsRemoved ==
    \A id \in Ids : \A c \in ClientIds :
        (tracked[id] = "once" /\ \E i \in 1..Len(send[c]) : send[c][i].ID = id)
            => id \notin DOMAIN trackingItems

\* C3: a check that was still fetching when its id was untracked is discarded: it
\* puts no alert into any channel and never gets to the deletion of an entry.
C3StaleCheckDiscarded ==
    \A p \in Slots :
        checks[p].stale => (checks[p].sent = {} /\ checks[p].pc # "lock")

\* C4: a track request whose id is already tracked is answered DuplicateError and
\* leaves the registry (the id's url and target price) as it was.
C4DuplicateRejected ==
    [][\A req \in Requests :
          (~InvalidTrack(req) /\ req.ID \in DOMAIN trackingItems
              /\ trackPriceHandler(req))
          => (TrackResponse(req).message = "DuplicateError"
                 /\ trackingItems' = trackingItems)]_vars

\* How many times alert a is in channel q.
Count(q, a) == Cardinality({i \in 1..Len(q) : q[i] = a})

\* The goroutine in slot p has gone through its whole broadcast loop.
Published(p) ==
    \/ checks[p].pc = "loop" /\ checks[p].todo = {}
    \/ checks[p].pc = "lock"

\* The clients registered when the lone publisher started.
Subscribers == {c \in ClientIds : cl[c] = "open"}

\* The subscribers whose channel was full before the publisher p reached them:
\* nothing drains, so a channel holds what it held plus what p put into it.
FullBefore(p) ==
    {c \in Subscribers : Len(send[c]) - Count(send[c], AlertOf(checks[p])) = SendCap}

\* C5: a publish to N subscribers of which exactly one has a full channel puts the
\* alert exactly once into the channel of each of the other N-1, which stay
\* registered with an open channel; the full one gets no alert, its channel is
\* closed and it is removed from clients.
C5PublishDropsOnlyFull ==
    \A p \in Slots :
        (Published(p) /\ Cardinality(FullBefore(p)) = 1) =>
            /\ \A c \in Subscribers \ FullBefore(p) :
                  /\ Count(send[c], AlertOf(checks[p])) = 1
                  /\ c \in checks[p].sent
                  /\ c \in clients
                  /\ ~closed[c]
            /\ \A c \in FullBefore(p) :
                  /\ Count(send[c], AlertOf(checks[p])) = 0
                  /\ Len(send[c]) = SendCap
                  /\ closed[c]
                  /\ c \notin clients

\* Three subscribers, exactly one of them full, and the publish is over.
C5Witness ==
    \E p \in Slots :
        /\ Published(p)
        /\ Cardinality(Subscribers) = 3
        /\ Cardinality(FullBefore(p)) = 1
        /\ Cardinality(checks[p].sent) = 2

\* C6: a publish never blocks on a subscriber and every publish runs to
\* completion: in no state is a goroutine inside its broadcast loop while the
\* process has ended.
C6PublishRunsToCompletion ==
    \A p \in Slots : checks[p].pc \in {"loop", "close", "delete"} => Running

\* C7: no polling error is fatal: no reachable state is a fault that ends the
\* process.
C7NoFatalFault == fault = "none"

C9OneCheckPerId ==
    \A p, q \in Slots :
        (p # q /\ checks[p].kind = "poll" /\ checks[q].kind = "poll")
            => checks[p].id # checks[q].id

\* C10: track(A, 100); a poll that observes 120 publishes nothing and leaves A
\* tracked; the next poll observes 95 and publishes one alert to every client
\* registered at that time; after it A is removed and the list lacks A.
C10EndToEnd ==
    /\ (obs = <<120>> /\ AllIdle) =>
          /\ trackingItems = Put(<<>>, "A", E2ERequest)
          /\ alerted["A"] = "never"
          /\ \A c \in ClientIds : send[c] = <<>>
    /\ \A p \in Slots :
          (checks[p].pc = "loop" /\ checks[p].todo = {}) =>
              /\ obs = <<120, 95>>
              /\ AlertOf(checks[p]) = PriceAlert("A", "u1", 95, 100)
              /\ checks[p].sent = clients
    /\ \A c \in ClientIds : \A i \in 1..Len(send[c]) :
          /\ send[c][i] = PriceAlert("A", "u1", 95, 100)
          /\ i = 1
    /\ (obs = <<120, 95>> /\ AllIdle) =>
          /\ "A" \notin DOMAIN trackingItems
          /\ \A r \in TrackedItems(trackingItems) : r.ID # "A"
          /\ alerted["A"] = "once"

\* Both polls are over, the alert of the second went to two clients, and one of
\* them has not read it yet.
C10Witness ==
    /\ obs = <<120, 95>>
    /\ AllIdle
    /\ alerted["A"] = "once"
    /\ \E c \in ClientIds : send[c] = <<PriceAlert("A", "u1", 95, 100)>>
    /\ Cardinality({c \in ClientIds : cl[c] # "none"}) = 2

\* C11: untrack is idempotent and never fails: on an absent id it reports success
\* and leaves the registry unchanged; on a present id it removes exactly that id
\* and leaves every other item unchanged; a second untrack of the id would change
\* nothing more.
C11UntrackIdempotent ==
    [][\A id \in Ids :
          untrackPriceHandler(id) =>
              /\ UntrackResponse(id).success
              /\ DOMAIN trackingItems' = DOMAIN trackingItems \ {id}
              /\ \A j \in DOMAIN trackingItems' : trackingItems'[j] = trackingItems[j]
              /\ id \notin DOMAIN trackingItems => trackingItems' = trackingItems
              /\ Delete(trackingItems', id) = trackingItems']_vars

\* An untrack of "A" went through while "B" was tracked too, and "B" is still there.
C11Witness ==
    /\ "A" \notin DOMAIN trackingItems
    /\ "B" \in DOMAIN trackingItems
    /\ \E p \in Slots : checks[p].id = "A" /\ checks[p].stale

\* C12: registry mutations (track, untrack, the delete of a crossing check) are
\* mutually exclusive with each other and with readers, and a list() result is the
\* registry of one single instant: at most one handler holds the write lock, none
\* holds it together with a reader, a writer finds the registry as it was when it
\* got the lock, and what list() has copied is the registry as it was when it got
\* the read lock.
C12RegistryExclusive ==
    /\ Cardinality(WriteHolders) <= 1
    /\ WriteHolders # {} => ReadHolders = {}
    /\ \A h \in WriteHolders :
          /\ ops[h].pc = "held" => trackingItems = ops[h].snap
          /\ ops[h].pc = "unlock" =>
                trackingItems = Mutation(ops[h].kind, ops[h].req, ops[h].snap)
    /\ \A h \in ReadHolders :
          /\ trackingItems = ops[h].snap
          /\ ops[h].items \subseteq TrackedItems(ops[h].snap)
          /\ ops[h].pc = "unlock" => ops[h].items = TrackedItems(ops[h].snap)

\* A list() has copied two items and still holds the read lock, with another
\* list() holding it too and an untrack waiting for the lock.
C12Witness ==
    \E h, g, f \in Handlers :
        /\ ops[h].kind = "list" /\ ops[h].pc = "unlock"
        /\ Cardinality(ops[h].items) = 2
        /\ ops[g].kind = "list" /\ ops[g].pc = "held"
        /\ ops[f].kind = "untrack" /\ ops[f].pc = "lock"

\* C13: the subscriber set has one writer at a time: every step that adds a client
\* to clients or removes one from it is taken with the exclusive lock, that is,
\* while no goroutine holds the read lock.
C13ClientsWrittenUnderLock == [][clients' # clients => readers = {}]_vars

\* C14: an alert is delivered only to the subscribers registered at the moment it
\* is published: in the scenario with its single alert, the channel of a client
\* that has not connected when the publish is under way or over stays empty for
\* ever, whenever the client connects.
C14LateSubscriberGetsNothing ==
    \A c \in ClientIds :
        []((cl[c] = "none" /\ (readers # {} \/ alerted["A"] # "never"))
              => [](send[c] = <<>>))

\* The publish is over, one client got the alert, and another client that is not
\* among those the publish sent to is connected with an empty channel.
C14Witness ==
    \E p \in Slots : \E c \in clients :
        /\ checks[p].pc = "lock"
        /\ checks[p].sent # {}
        /\ c \notin checks[p].sent
        /\ cl[c] = "open"
        /\ send[c] = <<>>

\* C15: a subscriber lives as long as its connection: once readPump has seen the
\* read error of a closed connection, the client is eventually removed from
\* clients (unless the process ends first), even if no alert is published any
\* more.
C15DisconnectedIsRemoved ==
    \A c \in ServerClients : (cl[c] = "gone") ~> (c \notin clients \/ ~Running)

\* C16: a check whose extraction fails altogether changes nothing and sends
\* nothing.  In the server the check ends with the registry, the channels and the
\* alerts as they were, and a check starts only at a tick of monitorPrices; in the
\* Tracker the failed fallback leaves selector, last price, threshold, StopChan
\* and the notifications as they were and goes back to the select, where a check
\* starts only with a tick.
C16FailedCheckChangesNothing ==
    [][/\ \A p \in Slots :
              checkFetchError(p) =>
                  /\ trackingItems' = trackingItems
                  /\ send' = send
                  /\ alerted' = alerted
                  /\ checks'[p].pc = "idle"
       /\ \A p \in Slots :
              (checks[p].pc # "fetch" /\ checks'[p].pc = "fetch") => monitorPrices
       /\ (tracker.pc = "full" /\ tracker'.fullErr) =>
              /\ tracker'.pc = "select"
              /\ tracker'.Selector = tracker.Selector
              /\ tracker'.LastPrice = tracker.LastPrice
              /\ tracker'.ThresholdPrice = tracker.ThresholdPrice
              /\ tracker'.notified = tracker.notified
              /\ tracker'.stop = tracker.stop
       /\ (tracker.pc # "fast" /\ tracker'.pc = "fast") =>
              tracker.pc = "select" /\ tracker.tick]_vars

\* A Tracker back at the select after a failed fallback, waiting for its tick.
C16Witness ==
    /\ tracker.pc = "select"
    /\ tracker.fullErr
    /\ ~tracker.tick
    /\ tracker.Selector = CompositeId
    /\ tracker.LastPrice = 120

\* C17: a check-price request never adds, removes or changes a tracked item: the
\* handler leaves the registry as it is, and so does every step of the goroutine it
\* starts, which never comes to the delete that ends checkAndNotify.
C17CheckPriceLeavesRegistry ==
    /\ [](\A p \in Slots : checks[p].kind = "once" => checks[p].pc # "lock")
    /\ [][/\ \A in \in CheckInputs : \A res \in ScrapeResults :
                 checkPriceHandler(in[1], in[2], res) => trackingItems' = trackingItems
          /\ \A p \in Slots :
                 ((checks[p].kind = "once" \/ checks'[p].kind = "once")
                  /\ checks'[p] # checks[p]) => trackingItems' = trackingItems]_vars

\* The goroutine of a check-price request has sent its alert to a client while an
\* item is tracked.
C17Witness ==
    /\ "A" \in DOMAIN trackingItems
    /\ \E p \in Slots : checks[p].kind = "once" /\ checks[p].sent # {}

\* C18: once a push response of status 404 or 410 has made sendNotification close
\* StopChan, the loop performs no further price check: no check begins while
\* StopChan is closed.
C18StoppedTrackerChecksNoMore == ~tracker.late

\* C19: a track request with an empty url, an empty id or a target that is not
\* positive is answered with a failure and cannot change the registry; a valid
\* request for an id that is not tracked adds the entry of that id, with the url
\* and the target of the request, and leaves every other entry as it was.
C19TrackValidates ==
    /\ [](\A req \in TrackRequests :
              InvalidTrack(req) =>
                  /\ ~TrackResponse(req).success
                  /\ ~ENABLED (trackPriceHandler(req) /\ trackingItems' # trackingItems))
    /\ [][\A req \in TrackRequests :
              (trackPriceHandler(req) /\ ~InvalidTrack(req)
               /\ req.ID \notin DOMAIN trackingItems) =>
                  /\ TrackResponse(req).success
                  /\ DOMAIN trackingItems' = DOMAIN trackingItems \cup {req.ID}
                  /\ trackingItems'[req.ID].URL = req.URL
                  /\ trackingItems'[req.ID].TargetPrice = req.TargetPrice
                  /\ \A j \in DOMAIN trackingItems :
                         trackingItems'[j] = trackingItems[j]]_vars

\* Item "B" was tracked once, as a new id, while "A" was tracked with its second
\* url, and both entries are there.
C19Witness ==
    /\ DOMAIN trackingItems = {"A", "B"}
    /\ tracked["B"] = "once"
    /\ trackingItems["A"].URL = "u2"
    /\ trackingItems["B"] = TrackingRequest("B", "u1", 100)

\* C20: a check of the Tracker tries the cached selector first; the full search
\* runs exactly when the fast path failed; and the cached selector is replaced
\* exactly when the full search succeeded with a selector that is not empty and
\* is another one than the cached, which then is the new cached selector.  While a
\* check is past its scraping, and after it until the next one starts:
C20FastPathThenFallback ==
    /\ [][(tracker.pc = "select" /\ tracker'.pc \notin {"select", "returned"}) =>
              tracker'.pc = "fast"]_vars
    /\ [][tracker'.pc = "full" => tracker.pc \in {"fast", "full"}]_vars
    /\ [](tracker.pc \in {"compare", "notify", "select"} =>
              /\ tracker.ranFull <=> tracker.fastErr
              /\ tracker.Selector # tracker.selBefore <=>
                     /\ tracker.ranFull
                     /\ ~tracker.fullErr
                     /\ tracker.fullSel # ""
                     /\ tracker.fullSel # tracker.selBefore
              /\ tracker.Selector # tracker.selBefore =>
                     tracker.Selector = tracker.fullSel)

\* A check whose fast path failed and whose full search found another selector
\* than the cached one, which it has replaced.
C20Witness ==
    /\ tracker.pc = "compare"
    /\ tracker.fastErr
    /\ tracker.ranFull
    /\ tracker.selBefore = CompositeId
    /\ tracker.Selector = ".price"

\* The text s is a decimal number written in the convention with grouping
\* separator g and decimal separator d: groups of three digits after a first
\* group of one to three, then at most one d followed by digits.
Follows(s, g, d) ==
    LET point == IF Contains(s, d) THEN LastIndex(s, d) + 1 ELSE Len(s) + 1
        whole == SubSeq(s, 1, point - 1)
        fraction == SubSeq(s, point + 1, Len(s))
    IN /\ CountOf(s, d) <= 1
       /\ Contains(s, d) => fraction # <<>>
       /\ \A i \in 1..Len(fraction) : IsDigit(fraction[i])
       /\ whole # <<>> /\ IsDigit(whole[1])
       /\ \A i \in 1..Len(whole) : IsDigit(whole[i]) \/ whole[i] = g
       /\ Contains(whole, g) => \E i \in 2..4 : whole[i] = g
       /\ \A i \in 1..Len(whole) :
              whole[i] = g =>
                  /\ i + 3 <= Len(whole)
                  /\ \A j \in (i + 1)..(i + 3) : IsDigit(whole[j])
                  /\ i + 3 < Len(whole) => whole[i + 4] = g

\* The number that s writes in that convention.
ValueAs(s, g, d) == ParseFloat(ReplaceAll(Without(s, {g}), d, ".")).price

\* The two conventions: 1,234.56 and 1.234,56.
Conventions == {<<",", ".">>, <<".", ",">>}

\* C21: for a text that writes a decimal number in one convention of "," and ".",
\* ParsePriceString returns no error and the number the text writes in a convention
\* it follows.
C21ParseExactValue ==
    (scraper.pc = "parsed" /\ \E cv \in Conventions : Follows(scraper.text, cv[1], cv[2])) =>
        /\ ~scraper.err
        /\ \E cv \in Conventions :
               /\ Follows(scraper.text, cv[1], cv[2])
               /\ scraper.price = ValueAs(scraper.text, cv[1], cv[2])

\* The text s writes a decimal number without a sign: digits with at most one
\* point, one digit at least.
PlainDecimal(s) ==
    /\ \A i \in 1..Len(s) : IsDigit(s[i]) \/ s[i] = "."
    /\ CountOf(s, ".") <= 1
    /\ \E i \in 1..Len(s) : IsDigit(s[i])

\* The text s writes a negative number: a minus sign, then a decimal number that is
\* not zero.
NegativeDecimal(s) ==
    /\ s # <<>> /\ s[1] = "-"
    /\ PlainDecimal(Tail(s))
    /\ \E i \in 2..Len(s) : IsDigit(s[i]) /\ s[i] # "0"

\* C22: ParsePriceString returns an error for the empty text, for a text that,
\* cleaned of currency symbols, commas and spaces, is not a decimal number, and for
\* a negative number; what it returns without error is not negative.
C22ParseRejects ==
    scraper.pc = "parsed" =>
        LET cleaned == Without(scraper.text, Removed)
        IN /\ scraper.text = <<>> => scraper.err
           /\ (~PlainDecimal(cleaned) /\ ~(cleaned # <<>> /\ cleaned[1] = "-"
                                          /\ PlainDecimal(Tail(cleaned)))) => scraper.err
           /\ NegativeDecimal(cleaned) => scraper.err
           /\ ~scraper.err => ~scraper.price.neg

\* C23: for a text with a "," and no ".", ParsePriceString reads the "," as the
\* decimal separator exactly when the last "," is three characters from the end,
\* and otherwise reads the text without its commas.
C23CommaAsDecimal ==
    LET s == Without(scraper.text, {"$", " "})
    IN (scraper.pc = "parsed" /\ Contains(s, ",") /\ ~Contains(s, ".")) =>
           LET expected == IF LastIndex(s, ",") = Len(s) - 3
                           THEN ParseFloat(ReplaceAll(s, ",", "."))
                           ELSE ParseFloat(Without(s, {","}))
           IN scraper.err = expected.err /\ scraper.price = expected.price

\* Strategy i yields text on the page that is not empty and that the parser
\* accepts.
Accepted(page, i) ==
    /\ page.up
    /\ StrategyText(page, i) # <<>>
    /\ ~ParsePriceString(StrategyText(page, i)).err

\* C24: ScrapePrice returns the value and the id of the first strategy, the
\* composite one before the generic selectors and these in their listed order,
\* whose text is not empty and is accepted by the parser.
C24FirstPriorityMatch ==
    scraper.pc = "scraped" =>
        \A i \in 1..Len(Strategies) :
            (Accepted(scraper.page, i) /\ \A j \in 1..(i - 1) : ~Accepted(scraper.page, j)) =>
                /\ ~scraper.err
                /\ scraper.found = Strategies[i]
                /\ scraper.price = ParsePriceString(StrategyText(scraper.page, i)).price

\* A page on which the composite strategy and both generic selectors yield a
\* price, the two selectors not the same one, has been searched.
C24Witness ==
    /\ scraper.pc = "scraped"
    /\ \A i \in 1..Len(Strategies) : Accepted(scraper.page, i)
    /\ scraper.page.text[1] # scraper.page.text[2]
    /\ scraper.found = CompositeId

\* C25: on a page where only the composite strategy yields text, ScrapePrice
\* returns the composite id and the number "<whole>.<fraction>" of the whole part
\* without its commas and the fraction part, "00" without a fraction element:
\* 1234.99 for "1,234" and "99", 1234 for "1,234" alone.  ScrapePriceWithSelector
\* returns the same number for the composite id.
C25CompositeValue ==
    (/\ scraper.pc \in {"scraped", "selected"}
     /\ scraper.pc = "selected" => scraper.selector = CompositeId
     /\ Accepted(scraper.page, 1)
     /\ \A i \in 1..Len(commonSelectors) : scraper.page.text[i] = <<>>) =>
        LET whole == TrimSuffixPoint(Without(scraper.page.whole[1], {","}))
            fraction == IF scraper.page.fraction = <<>> THEN <<"0", "0">>
                        ELSE scraper.page.fraction[1]
        IN /\ ~scraper.err
           /\ scraper.pc = "scraped" => scraper.found = CompositeId
           /\ ~ParseFloat(whole \o <<".">> \o fraction).err
           /\ scraper.price = ParseFloat(whole \o <<".">> \o fraction).price
           /\ (scraper.page.whole = <<<<"1", ",", "2", "3", "4">>>>
               /\ scraper.page.fraction = <<<<"9", "9">>>>) =>
                  scraper.price = [neg |-> FALSE, mant |-> 123499, frac |-> 2]
           /\ (scraper.page.whole = <<<<"1", ",", "2", "3", "4">>>>
               /\ scraper.page.fraction = <<>>) =>
                  scraper.price = [neg |-> FALSE, mant |-> 1234, frac |-> 0]

\* ScrapePrice has searched the page with "1,234" and "99" and nothing else.
C25Witness ==
    /\ scraper.pc = "scraped"
    /\ scraper.page.up
    /\ scraper.page.whole = <<<<"1", ",", "2", "3", "4">>>>
    /\ scraper.page.fraction = <<<<"9", "9">>>>
    /\ \A i \in 1..Len(commonSelectors) : scraper.page.text[i] = <<>>
    /\ scraper.found = CompositeId

\* C26: on a document, ScrapePrice returns its not-found error exactly when no
\* strategy yields text that the parser accepts; a strategy whose text is empty or
\* rejected does not end the search: with an accepted text at a later strategy
\* the search succeeds with that strategy.
C26NotFoundAfterAll ==
    (scraper.pc = "scraped" /\ scraper.page.up) =>
        /\ scraper.err <=> \A i \in 1..Len(Strategies) : ~Accepted(scraper.page, i)
        /\ \A i \in 1..Len(Strategies) : \A j \in (i + 1)..Len(Strategies) :
               (/\ \A k \in 1..(j - 1) : ~Accepted(scraper.page, k)
                /\ Accepted(scraper.page, j)) =>
                   ~scraper.err /\ scraper.found = Strategies[j]

\* The composite text was rejected, the first selector found nothing, and the
\* search has succeeded with the last selector.
C26Witness ==
    /\ scraper.pc = "scraped"
    /\ CompositeText(scraper.page) # <<>>
    /\ ParsePriceString(CompositeText(scraper.page)).err
    /\ scraper.page.text[1] = <<>>
    /\ ~scraper.err
    /\ scraper.found = Strategies[Len(Strategies)]

C28FirstObservationNotified ==
    [][(/\ comparePrice
        /\ tracker.LastPrice = 0
        /\ tracker.cur > 0
        /\ tracker.cur <= tracker.ThresholdPrice) => tracker'.pc = "notify"]_vars

\* C29: when a check that obtained a price above 0 is back at the select,
\* LastPrice is that price; a check that obtains the last price again sends no
\* notification; and a check whose price is not above 0 leaves LastPrice as it
\* was and sends nothing.
C29LastPriceFollows ==
    /\ []((tracker.pc = "select" /\ tracker.cur > 0) => tracker.LastPrice = tracker.cur)
    /\ [][(comparePrice /\ tracker.cur = tracker.LastPrice) =>
              tracker'.pc = "select" /\ tracker'.LastPrice = tracker.cur]_vars
    /\ [][(comparePrice /\ ~(tracker.cur > 0)) =>
              /\ tracker'.pc = "select"
              /\ tracker'.LastPrice = tracker.LastPrice
              /\ tracker'.notified = tracker.notified]_vars

\* The check after a notification of 95 has obtained 95 again.
C29Witness ==
    /\ tracker.pc = "compare"
    /\ tracker.notified = "once"
    /\ tracker.cur = 95
    /\ tracker.LastPrice = 95

\* C30: once StopChan is closed the loop starts no further price check, even with
\* a tick in ticker.C: from the select with StopChan closed no step leads into a
\* check.
C30StopBeatsTick ==
    [][(tracker.pc = "select" /\ tracker.stop) => tracker'.pc # "fast"]_vars

\* C31: no interleaving of publishes closes a subscriber's channel that is closed
\* already or sends on a channel that another publish has closed.
C31PublishesNeverCollide ==
    fault \notin {"close of closed channel", "send on closed channel"}

\* C32: a check removes only the instance it evaluated: the delete of a check
\* whose id was untracked while it was fetching leaves the registry as it is when
\* the id has been tracked again, and such a check puts no alert of its own copy
\* into a channel.
C32StaleCheckSparesNewInstance ==
    [][\A p \in Slots :
          (checks[p].stale /\ checks[p].id \in DOMAIN trackingItems) =>
              /\ checkDelete(p) => trackingItems' = trackingItems
              /\ \A c \in ClientIds : broadcastSelect(p, c) => send' = send]_vars

\* C33: StopChan is closed at most once: sendNotification never closes it when it
\* is closed already.
C33StopChanClosedOnce == tracker.fault # "close of closed channel"

\* C34: every alert in a client's channel has a current price at or below its
\* target price; a check that the scheduler launches gets the id, url and target
\* of the registry entry at that tick and keeps them while it runs; and the alert a
\* goroutine puts into a channel carries its id, its url, the price it fetched and
\* its target.
C34AlertContents ==
    /\ [](\A c \in ClientIds : \A i \in 1..Len(send[c]) :
              send[c][i].CurrentPrice <= send[c][i].TargetPrice)
    /\ [][monitorPrices =>
              \A p \in Slots :
                  checks'[p] # checks[p] =>
                      /\ checks'[p].id \in DOMAIN trackingItems
                      /\ checks'[p].url = trackingItems[checks'[p].id].URL
                      /\ checks'[p].target = trackingItems[checks'[p].id].TargetPrice]_vars
    /\ [][\A p \in Slots :
              (checks[p].pc # "idle" /\ checks'[p].pc # "idle") =>
                  /\ checks'[p].id = checks[p].id
                  /\ checks'[p].url = checks[p].url
                  /\ checks'[p].target = checks[p].target]_vars
    /\ [][\A p \in Slots : \A c \in ClientIds :
              (broadcastSelect(p, c) /\ send' # send) =>
                  send'[c] = Append(send[c], PriceAlert(checks[p].id, checks[p].url,
                                                       checks[p].price, checks[p].target))]_vars

\* The client's channel holds the alert of the check launched for the first
\* instance of "A", with its url and target, while the registry holds the second.
C34Witness ==
    /\ "A" \in DOMAIN trackingItems
    /\ trackingItems["A"] = TrackingRequest("A", "u2", 95)
    /\ send["c1"] # <<>>
    /\ send["c1"][1] = PriceAlert("A", "u1", 95, 100)

====
